---- MODULE Spec2Model ----
(***************************************************************************)
(* Model of services/py-deep-research/main.py: the FastAPI service that    *)
(* wraps the deep_researcher library and streams its progress as SSE.      *)
(*                                                                         *)
(* Text is modelled as a sequence of tokens.  A token is one character or  *)
(* one fixed literal of the source (a log pattern such as "<thought>", or  *)
(* "H", standing for the scheme prefix "http://" / "https://" that both    *)
(* URL regular expressions start with).                                    *)
(***************************************************************************)
EXTENDS Integers, Sequences, FiniteSets, TLC

VARIABLES
    pc,               \* position of the request / of the response generator
    req,              \* the ResearchRequest as received (raw fields)
    wrapper,          \* whether StreamingResearchWrapper() was constructed
    researcher,       \* which researcher object was constructed, "none" if none
    started,          \* which stream_* generator was started, with its arguments
    out,              \* events yielded by the generator to EventSourceResponse
    events,           \* wrapper.events
    pending,          \* tasks created by asyncio.create_task, not yet run (FIFO)
    iteration_count,  \* iteration_count[0] of stream_iterative_research
    emitted,          \* messages the library passed to researcher._log_message
    origLog,          \* messages passed to the library's original _log_message
    report,           \* value returned by researcher.run
    findings,         \* researcher.conversation.get_all_findings()
    citations,        \* the extracted citation list
    cit_i,            \* number of citations already yielded by the for loop
    raised,           \* what was raised inside the generator's try block
    escaped           \* TRUE when an exception left the generator

vars == <<pc, req, wrapper, researcher, started, out, events, pending,
          iteration_count, emitted, origLog, report, findings, citations, cit_i,
          raised, escaped>>

(***************************************************************************)
(* Bounds of the model.                                                    *)
(***************************************************************************)
MaxLogs == 2        \* log messages the library emits during one run
MaxMsgLen == 2      \* tokens of a log message in the classification check
MaxSegs == 3        \* segments of a report text in the extraction check
MaxFindings == 2    \* findings of a conversation in the extraction check

(***************************************************************************)
(* Text helpers: str.strip, str.replace, `in`, str.find, str.split('.').   *)
(***************************************************************************)
WS == {" "}

RECURSIVE LStrip(_)
LStrip(s) ==
    IF s # <<>> /\ Head(s) \in WS THEN LStrip(Tail(s)) ELSE s

RECURSIVE RStrip(_)
RStrip(s) ==
    IF s # <<>> /\ s[Len(s)] \in WS THEN RStrip(SubSeq(s, 1, Len(s) - 1)) ELSE s

Strip(s) == RStrip(LStrip(s))

Replace(s, tok) == SelectSeq(s, LAMBDA t : t # tok)

Contains(s, tok) == \E i \in DOMAIN s : s[i] = tok

\* text.find(sub): the 0-based index of the first occurrence, -1 if none
Find(text, sub) ==
    LET occ == {i \in 1..(Len(text) - Len(sub) + 1) :
                    SubSeq(text, i, i + Len(sub) - 1) = sub}
    IN  IF occ = {} THEN -1
        ELSE (CHOOSE i \in occ : \A k \in occ : i <= k) - 1

\* text.split('.')[-1]: what follows the last '.', the whole text if none
LastSentence(text) ==
    LET dots == {i \in DOMAIN text : text[i] = "."}
    IN  IF dots = {} THEN text
        ELSE SubSeq(text, (CHOOSE i \in dots : \A k \in dots : k <= i) + 1, Len(text))

Max(a, b) == IF a >= b THEN a ELSE b

(***************************************************************************)
(* The two regular expressions.                                            *)
(***************************************************************************)
\* characters that [^\s<>"{}|\\^`\[\]] excludes, among the model's tokens
UrlStop == {" ", "[", "]"}

\* the end of the greedy run [^\s<>"{}|\\^`\[\]]+ that starts at k
UrlEnd(text, k) ==
    CHOOSE j \in k..Len(text) :
        /\ \A m \in k..j : text[m] \notin UrlStop
        /\ (j = Len(text) \/ text[j + 1] \in UrlStop)

\* re.findall(r'https?://[^\s<>"{}|\\^`\[\]]+', text), scanning from i
RECURSIVE PlainUrlsFrom(_, _)
PlainUrlsFrom(text, i) ==
    IF i > Len(text) THEN <<>>
    ELSE IF text[i] = "H" /\ i < Len(text) /\ text[i + 1] \notin UrlStop
         THEN LET j == UrlEnd(text, i + 1)
              IN  <<SubSeq(text, i, j)>> \o PlainUrlsFrom(text, j + 1)
         ELSE PlainUrlsFrom(text, i + 1)

PlainUrls(text) == PlainUrlsFrom(text, 1)

\* the first index >= k holding tok, 0 if none
FirstAt(text, k, tok) ==
    LET at == {m \in k..Len(text) : text[m] = tok}
    IN  IF at = {} THEN 0 ELSE CHOOSE m \in at : \A n \in at : m <= n

\* re.findall(r'\[([^\]]+)\]\((https?://[^\)]+)\)', text), scanning from i:
\* the (title, url) pairs
RECURSIVE MarkdownLinksFrom(_, _)
MarkdownLinksFrom(text, i) ==
    IF i > Len(text) THEN <<>>
    ELSE LET j == FirstAt(text, i + 1, "]")
             k == IF j = 0 THEN 0 ELSE FirstAt(text, j + 3, ")")
             hit == /\ text[i] = "["
                    /\ j >= i + 2
                    /\ j + 2 <= Len(text)
                    /\ text[j + 1] = "("
                    /\ text[j + 2] = "H"
                    /\ k >= j + 4
         IN  IF hit
             THEN <<[title |-> SubSeq(text, i + 1, j - 1),
                     url   |-> SubSeq(text, j + 2, k - 1)]>>
                  \o MarkdownLinksFrom(text, k + 1)
             ELSE MarkdownLinksFrom(text, i + 1)

MarkdownLinks(text) == MarkdownLinksFrom(text, 1)

(***************************************************************************)
(* Citation extraction.                                                    *)
(***************************************************************************)
TitleWindow == 100
SnippetLen == 200

\* _extract_title_near_url: Optional[str] as [some, val]
NoTitle == [some |-> FALSE, val |-> <<>>]

extract_title_near_url(text, url) ==
    LET url_pos == Find(text, url)
    IN  IF url_pos > 0
        THEN LET before_text ==
                     Strip(SubSeq(text, Max(0, url_pos - TitleWindow) + 1, url_pos))
             IN  [some |-> TRUE, val |-> Strip(LastSentence(before_text))]
        ELSE NoTitle

\* a slip in the fallback: `title if title is not None else url`
TitleOrUrlEmptyKept(title, url) == IF title.some THEN title.val ELSE url

\* `title or url`: url when title is None or the empty string

TitleOrUrl(title, url) ==
    IF title.some /\ title.val # <<>> THEN title.val ELSE url

Snippet(finding) ==
    IF Len(finding) > SnippetLen
    THEN SubSeq(finding, 1, SnippetLen) \o <<"...">>
    ELSE finding

Citation(id, url, title, snippet) ==
    [id |-> id, url |-> url, title |-> title, sourceType |-> "web",
     snippet |-> snippet]

\* the inner loop of _extract_citations_from_findings over one finding's urls
RECURSIVE FindingCitations(_, _, _)
FindingCitations(finding, urls, citation_id) ==
    IF urls = <<>> THEN <<>>
    ELSE <<Citation(citation_id, Head(urls),
                    TitleOrUrl(extract_title_near_url(finding, Head(urls)), Head(urls)),
                    Snippet(finding))>>
         \o FindingCitations(finding, Tail(urls), citation_id + 1)

RECURSIVE FindingsCitationsFrom(_, _)
FindingsCitationsFrom(fs, citation_id) ==
    IF fs = <<>> THEN <<>>
    ELSE LET cs == FindingCitations(Head(fs), PlainUrls(Head(fs)), citation_id)
         IN  cs \o FindingsCitationsFrom(Tail(fs), citation_id + Len(cs))

extract_citations_from_findings(fs) == FindingsCitationsFrom(fs, 1)

\* the first loop of _extract_citations_from_report
RECURSIVE LinkCitations(_, _)
LinkCitations(links, citation_id) ==
    IF links = <<>> THEN <<>>
    ELSE <<Citation(citation_id, Head(links).url, Head(links).title, <<>>)>>
         \o LinkCitations(Tail(links), citation_id + 1)

\* the second loop: a plain url is appended unless a record has it already
RECURSIVE AddPlainUrls(_, _)
AddPlainUrls(cits, urls) ==
    IF urls = <<>> THEN cits
    ELSE IF \E n \in DOMAIN cits : cits[n].url = Head(urls)
         THEN AddPlainUrls(cits, Tail(urls))
         ELSE AddPlainUrls(
                  Append(cits, Citation(Len(cits) + 1, Head(urls), Head(urls), <<>>)),
                  Tail(urls))

extract_citations_from_report(text) ==
    AddPlainUrls(LinkCitations(MarkdownLinks(text), 1), PlainUrls(text))

(***************************************************************************)
(* Events and SSE framing.                                                 *)
(***************************************************************************)
\* ResearchEvent(type=..., data=...)
ResearchEvent(event_type, data) == [type |-> event_type, data |-> data]

\* _format_event: f"data: {json.dumps({'type': ..., 'data': ...})}\n\n"
format_event(event_type, data) ==
    <<"data: ", [type |-> event_type, data |-> data], "\n\n">>

\* what a client reads back from one frame, and the event types of a stream
FrameEvent(frame) == frame[2]

Types(stream) == [n \in DOMAIN stream |-> FrameEvent(stream[n]).type]

EventTypes(evs) == [n \in DOMAIN evs |-> evs[n].type]

(***************************************************************************)
(* The log interceptors.  Each returns the new counter, the events it      *)
(* schedules (none or one) and the messages it hands to original_log.      *)
(***************************************************************************)
IterativePatterns ==
    <<"Starting Iteration", "<thought>", "<task>", "<action>",
      "Tool execution progress", "<findings>", "Drafting Final Response">>

DeepPatterns ==
    <<"Building Report Plan", "Report plan created with",
      "Initializing Research Loops", "Building Final Report", "completed in">>

Untagged(message, open, close) == Strip(Replace(Replace(message, open), close))

\* a slip in the counter: every message counts as an iteration
IterativeCountEveryMessage(message, count) == count + 1

\* if "Starting Iteration" in message: iteration_count[0] += 1
IterativeCount(message, count) ==
    IF Contains(message, "Starting Iteration") THEN count + 1 ELSE count

\* a slip in the elif chain: "<task>" is tested before "<thought>"
IterativeEventsTaskFirst(message, count) ==
    IF Contains(message, "Starting Iteration")
    THEN <<ResearchEvent("iteration_start",
                         [iteration |-> count, message |-> message])>>
    ELSE IF Contains(message, "<task>")
    THEN <<ResearchEvent("gap_detected",
                         [gap |-> Untagged(message, "<task>", "</task>")])>>
    ELSE IF Contains(message, "<thought>")
    THEN <<ResearchEvent("observations",
                         [content |-> Untagged(message, "<thought>", "</thought>")])>>
    ELSE IF Contains(message, "<action>")
    THEN <<ResearchEvent("tool_selection",
                         [tools |-> Untagged(message, "<action>", "</action>")])>>
    ELSE IF Contains(message, "Tool execution progress")
    THEN <<ResearchEvent("tool_progress", [message |-> message])>>
    ELSE IF Contains(message, "<findings>")
    THEN <<ResearchEvent("findings_update",
                         [findings |-> Untagged(message, "<findings>", "</findings>")])>>
    ELSE IF Contains(message, "Drafting Final Response")
    THEN <<ResearchEvent("finalizing", [message |-> <<"Creating final report...">>])>>
    ELSE <<>>

\* the if/elif chain of the iterative custom_log: the events it schedules;
\* count is iteration_count[0] as the chain reads it, after the increment
IterativeEvents(message, count) ==
    IF Contains(message, "Starting Iteration")
    THEN <<ResearchEvent("iteration_start",
                         [iteration |-> count, message |-> message])>>
    ELSE IF Contains(message, "<thought>")
    THEN <<ResearchEvent("observations",
                         [content |-> Untagged(message, "<thought>", "</thought>")])>>
    ELSE IF Contains(message, "<task>")
    THEN <<ResearchEvent("gap_detected",
                         [gap |-> Untagged(message, "<task>", "</task>")])>>
    ELSE IF Contains(message, "<action>")
    THEN <<ResearchEvent("tool_selection",
                         [tools |-> Untagged(message, "<action>", "</action>")])>>
    ELSE IF Contains(message, "Tool execution progress")
    THEN <<ResearchEvent("tool_progress", [message |-> message])>>
    ELSE IF Contains(message, "<findings>")
    THEN <<ResearchEvent("findings_update",
                         [findings |-> Untagged(message, "<findings>", "</findings>")])>>
    ELSE IF Contains(message, "Drafting Final Response")
    THEN <<ResearchEvent("finalizing", [message |-> <<"Creating final report...">>])>>
    ELSE <<>>

iterative_custom_log(message, count) ==
    LET c == IterativeCount(message, count)
    IN  [count  |-> c,
         sched  |-> IterativeEvents(message, c),
         logged |-> <<message>>]

deep_custom_log(message, count) ==
    LET sched ==
            IF Contains(message, "Building Report Plan")
            THEN <<ResearchEvent("planning",
                                 [message |-> <<"Creating report outline...">>])>>
            ELSE IF Contains(message, "Report plan created with")
            THEN <<ResearchEvent("plan_created", [message |-> message])>>
            ELSE IF Contains(message, "Initializing Research Loops")
            THEN <<ResearchEvent("research_start",
                                 [message |-> <<"Starting parallel section research...">>])>>
            ELSE IF Contains(message, "Building Final Report")
            THEN <<ResearchEvent("finalizing",
                                 [message |-> <<"Compiling final report...">>])>>
            ELSE IF Contains(message, "completed in")
            THEN <<ResearchEvent("progress", [message |-> message])>>
            ELSE <<>>
    IN  [count |-> count, sched |-> sched, logged |-> <<message>>]

custom_log(mode, message, count) ==
    IF mode = "iterative" THEN iterative_custom_log(message, count)
    ELSE deep_custom_log(message, count)

\* a slip in the scheduling: the coroutine is awaited, the event recorded at once
create_task_awaited(pend, evs, sched) == [pending |-> pend, events |-> evs \o sched]

\* asyncio.create_task(self._emit_event(...)): the coroutine is queued on the
\* event loop and custom_log goes on without awaiting it
create_task(pend, evs, sched) == [pending |-> pend \o sched, events |-> evs]

\* _emit_event, when the loop runs the task
emit_event(evs, ev) == Append(evs, ev)

(***************************************************************************)
(* ResearchRequest: a raw field is {} when the body omits it, {v} else.    *)
(***************************************************************************)
MinIterations == 1
MaxIterations == 20
DefaultIterations == 5
MinTimeMinutes == 1
MaxTimeMinutes == 60
DefaultTimeMinutes == 10

Given(field) == CHOOSE v \in field : TRUE

OrDefault(field, default) == IF field = {} THEN default ELSE Given(field)

\* a slip in a limit: max_iterations one above le=20 still passes
ValidOffByOne(r) ==
    /\ r.query # {}
    /\ OrDefault(r.mode, "iterative") \in {"iterative", "deep"}
    /\ OrDefault(r.max_iterations, DefaultIterations) >= MinIterations
    /\ OrDefault(r.max_iterations, DefaultIterations) <= MaxIterations + 1
    /\ OrDefault(r.max_time_minutes, DefaultTimeMinutes) >= MinTimeMinutes
    /\ OrDefault(r.max_time_minutes, DefaultTimeMinutes) <= MaxTimeMinutes

\* pydantic's validation of the body against ResearchRequest
Valid(r) ==
    /\ r.query # {}
    /\ OrDefault(r.mode, "iterative") \in {"iterative", "deep"}
    /\ OrDefault(r.max_iterations, DefaultIterations) >= MinIterations
    /\ OrDefault(r.max_iterations, DefaultIterations) <= MaxIterations
    /\ OrDefault(r.max_time_minutes, DefaultTimeMinutes) >= MinTimeMinutes
    /\ OrDefault(r.max_time_minutes, DefaultTimeMinutes) <= MaxTimeMinutes

\* the ResearchRequest object the handler receives
Validated(r) ==
    [query              |-> Given(r.query),
     mode               |-> OrDefault(r.mode, "iterative"),
     max_iterations     |-> OrDefault(r.max_iterations, DefaultIterations),
     max_time_minutes   |-> OrDefault(r.max_time_minutes, DefaultTimeMinutes),
     output_length      |-> OrDefault(r.output_length, "5 pages"),
     background_context |-> OrDefault(r.background_context, "")]

\* the branch of stream_research taken for a request object
Dispatch(request) ==
    IF request.mode = "iterative"
    THEN [fn                 |-> "stream_iterative_research",
          query              |-> request.query,
          max_iterations     |-> request.max_iterations,
          max_time_minutes   |-> request.max_time_minutes,
          output_length      |-> request.output_length,
          background_context |-> request.background_context]
    ELSE IF request.mode = "deep"
    THEN [fn               |-> "stream_deep_research",
          query            |-> request.query,
          max_iterations   |-> request.max_iterations,
          max_time_minutes |-> request.max_time_minutes]
    ELSE [fn |-> "HTTPException", status_code |-> 400]

NotStarted == [fn |-> "none"]

Mode == IF started.fn = "stream_iterative_research" THEN "iterative" ELSE "deep"

\* request bodies: every field omitted, at and around each limit
AllRequests ==
    [query              : {{}, {"q"}},
     mode               : {{}, {"iterative"}, {"deep"}, {"fast"}},
     max_iterations     : {{}, {MinIterations - 1}, {MinIterations},
                           {MaxIterations}, {MaxIterations + 1}},
     max_time_minutes   : {{}, {MinTimeMinutes - 1}, {MinTimeMinutes},
                           {MaxTimeMinutes}, {MaxTimeMinutes + 1}},
     output_length      : {{}, {"2 pages"}},
     background_context : {{}, {"notes"}}]

\* the request bodies the streaming runs are explored with
SampleRequests ==
    {r \in AllRequests :
        /\ r.output_length = {} /\ r.background_context = {}
        /\ r.mode # {"iterative"}
        /\ \/ r.max_iterations = {} /\ r.max_time_minutes = {} 
           \/ /\ r.max_iterations = {MaxIterations + 1}
              /\ r.max_time_minutes = {MinTimeMinutes}
              /\ r.query # {} /\ r.mode = {}}

(***************************************************************************)
(* What the library and the client may do: inputs of the model.            *)
(***************************************************************************)
\* log messages of a run, as token sequences
IterativeMessages ==
    {<<"Starting Iteration">>,
     <<"<thought>", "x", "</thought>">>,
     <<"<task>", "x", "</task>">>,
     <<"<action>", "x", "</action>">>,
     <<"Tool execution progress">>,
     <<"<findings>", " ", "x", "</findings>">>,
     <<"Drafting Final Response">>,
     <<"x">>,
     <<"<thought>", "Starting Iteration">>}

DeepMessages ==
    {<<"Building Report Plan">>,
     <<"Report plan created with", "x">>,
     <<"Initializing Research Loops">>,
     <<"Building Final Report">>,
     <<"x", "completed in">>,
     <<"x">>,
     <<"completed in", "Building Final Report">>}

SampleMessages(mode) == IF mode = "iterative" THEN IterativeMessages ELSE DeepMessages

SeqToSet(s) == {s[n] : n \in DOMAIN s}

IterativeTokens ==
    SeqToSet(IterativePatterns)
        \cup {"</thought>", "</task>", "</action>", "</findings>", "x", " "}

DeepTokens == SeqToSet(DeepPatterns) \cup {"x", " "}

\* every message of at most MaxMsgLen tokens
AllMessages(mode) ==
    UNION {[1..n -> IF mode = "iterative" THEN IterativeTokens ELSE DeepTokens] :
               n \in 0..MaxMsgLen}

\* texts built from at most n segments
LinkAX == <<"[", "a", "]", "(", "H", "x", ")">>
LinkBX == <<"[", "b", "]", "(", "H", "x", ")">>
UrlX == <<"H", "x">>
UrlY == <<"H", "y">>

Segments ==
    {LinkAX, LinkBX, UrlX, UrlY, <<" ">>, <<"a">>, <<".">>, <<"[">>, <<"]">>, <<")">>}

RECURSIVE Texts(_)
Texts(n) ==
    IF n = 0 THEN {<<>>}
    ELSE LET shorter == Texts(n - 1)
         IN  shorter \cup {t \o s : t \in shorter, s \in Segments}

\* findings of a conversation
FindingPool ==
    {<<"a", " ">> \o UrlX,
     UrlX \o <<" ", "a", ".", " ">> \o UrlY,
     <<"a", ".", " ">> \o UrlX,
     <<"a">>,
     UrlX}

RECURSIVE Lists(_, _)
Lists(S, n) ==
    IF n = 0 THEN {<<>>}
    ELSE LET shorter == Lists(S, n - 1)
         IN  shorter \cup {Append(l, e) : l \in shorter, e \in S}

\* what researcher.run and the conversation hand back in a streaming run
SampleReports ==
    {<<"a">>, LinkAX, LinkAX \o <<" ">> \o LinkBX \o <<" ">> \o UrlY}

SampleFindings ==
    {<<>>, <<UrlX>>, << <<"a", " ">> \o UrlX, <<"a", ".", " ">> \o UrlY >>}

Results(mode) ==
    IF mode = "iterative"
    THEN {[report |-> <<"a">>, findings |-> f] : f \in SampleFindings}
    ELSE {[report |-> r, findings |-> <<>>] : r \in SampleReports}

\* exceptions (subclasses of Exception) the library may raise
Exceptions ==
    {[type |-> "ValueError", msg |-> "invalid model"],
     [type |-> "TimeoutError", msg |-> "timed out"]}

NoRaise == [stage |-> "none", type |-> "", msg |-> "", is_exception |-> FALSE]

Raise(stage, e) ==
    [stage |-> stage, type |-> e.type, msg |-> e.msg, is_exception |-> TRUE]

(***************************************************************************)
(* The generator bodies of stream_iterative_research and                   *)
(* stream_deep_research, as the event lists they yield.                    *)
(***************************************************************************)
StartedEvent ==
    format_event("started",
                 [mode             |-> Mode,
                  query            |-> started.query,
                  max_iterations   |-> started.max_iterations,
                  max_time_minutes |-> started.max_time_minutes])

CitationEvent(citation) == format_event("citation", citation)

FinalReportEvent(mode, rep, cits, count) ==
    IF mode = "iterative"
    THEN format_event("final_report",
                      [report |-> rep, citations |-> cits, iterations |-> count])
    ELSE format_event("final_report", [report |-> rep, citations |-> cits])

CompletedEvent(mode) ==
    format_event("completed",
                 [message |-> IF mode = "iterative"
                              THEN "Research completed successfully"
                              ELSE "Deep research completed successfully"])

\* a slip in the except clause: the type name is sent as the message
ErrorEventTypeOnly(e) == format_event("error", [error |-> e.type, type |-> e.type])

\* except Exception as e: yield the error event
ErrorEvent(e) == format_event("error", [error |-> e.msg, type |-> e.type])

\* the citation extraction each mode performs after run
ExtractCitations(mode, rep, fs) ==
    IF mode = "iterative" THEN extract_citations_from_findings(fs)
    ELSE extract_citations_from_report(rep)

\* a slip in the order of the yields: final_report first, the citations after
NextYieldReportFirst(mode, rep, cits, count, n) ==
    IF n = 0
    THEN [frame |-> FinalReportEvent(mode, rep, cits, count),
          pc    |-> IF cits = <<>> THEN "final_report" ELSE "citing"]
    ELSE [frame |-> CitationEvent(cits[n]),
          pc    |-> IF n < Len(cits) THEN "citing" ELSE "final_report"]

\* the yield the generator stops at after n citations were yielded
NextYield(mode, rep, cits, count, n) ==
    IF n < Len(cits)
    THEN [frame |-> CitationEvent(cits[n + 1]), pc |-> "citing"]
    ELSE [frame |-> FinalReportEvent(mode, rep, cits, count), pc |-> "final_report"]

(***************************************************************************)
(* State machine.                                                          *)
(***************************************************************************)
Init ==
    /\ pc = "idle"
    /\ req = [query |-> {}, mode |-> {}, max_iterations |-> {},
              max_time_minutes |-> {}, output_length |-> {},
              background_context |-> {}]
    /\ wrapper = FALSE
    /\ researcher = "none"
    /\ started = NotStarted
    /\ out = <<>>
    /\ events = <<>>
    /\ pending = <<>>
    /\ iteration_count = 0
    /\ emitted = <<>>
    /\ origLog = <<>>
    /\ report = <<>>
    /\ findings = <<>>
    /\ citations = <<>>
    /\ cit_i = 0
    /\ raised = NoRaise
    /\ escaped = FALSE

\* POST /research/stream with body r: validation, then the handler
stream_research(r) ==
    /\ pc = "idle"
    /\ req' = r
    /\ IF ~Valid(r)
       THEN /\ pc' = "rejected_422"
            /\ UNCHANGED <<wrapper, started>>
       ELSE /\ wrapper' = TRUE
            /\ started' = Dispatch(Validated(r))
            /\ pc' = IF started'.fn = "HTTPException" THEN "rejected_400" ELSE "created"
    /\ UNCHANGED <<researcher, out, events, pending, iteration_count, emitted, origLog,
                   report, findings, citations, cit_i, raised, escaped>>

\* EventSourceResponse asks for the first item: the body runs to its first yield
YieldStarted ==
    /\ pc = "created"
    /\ out' = Append(out, StartedEvent)
    /\ pc' = "started"
    /\ UNCHANGED <<req, wrapper, researcher, started, events, pending,
                   iteration_count, emitted, origLog, report, findings, citations, cit_i,
                   raised, escaped>>

\* LLMConfig(...), the researcher's constructor, the patch of _log_message, and
\* the call of researcher.run up to its first suspension
Construct ==
    /\ pc = "started"
    /\ researcher' = Mode
    /\ iteration_count' = 0
    /\ pc' = "running"
    /\ UNCHANGED <<req, wrapper, started, out, events, pending, emitted, origLog, report,
                   findings, citations, cit_i, raised, escaped>>

\* the constructor raises: the except clause yields the error event
ConstructRaises(e) ==
    /\ pc = "started"
    /\ raised' = Raise("construct", e)
    /\ out' = Append(out, ErrorEvent(e))
    /\ pc' = "error"
    /\ UNCHANGED <<req, wrapper, researcher, started, events, pending,
                   iteration_count, emitted, origLog, report, findings, citations, cit_i,
                   escaped>>

\* the library calls researcher._log_message(message) during run
Log(message) ==
    /\ pc = "running"
    /\ LET r == custom_log(Mode, message, iteration_count)
           t == create_task(pending, events, r.sched)
       IN  /\ iteration_count' = r.count
           /\ pending' = t.pending
           /\ events' = t.events
           /\ origLog' = origLog \o r.logged
    /\ emitted' = Append(emitted, message)
    /\ UNCHANGED <<pc, req, wrapper, researcher, started, out, report, findings,
                   citations, cit_i, raised, escaped>>

LogSample ==
    /\ Len(emitted) < MaxLogs
    /\ \E message \in SampleMessages(Mode) : Log(message)

LogAny ==
    /\ emitted = <<>>
    /\ origLog = <<>>
    /\ \E message \in AllMessages(Mode) : Log(message)

\* the event loop runs the oldest scheduled _emit_event while the request's
\* task is suspended (inside run, or at a yield) or finished
RunTask ==
    /\ pc \in {"running", "citing", "final_report", "completed", "error",
               "done", "cancelled"}
    /\ pending # <<>>
    /\ events' = emit_event(events, Head(pending))
    /\ pending' = Tail(pending)
    /\ UNCHANGED <<pc, req, wrapper, researcher, started, out, iteration_count,
                   emitted, origLog, report, findings, citations, cit_i, raised, escaped>>

\* researcher.run raises an Exception
RunRaises(e) ==
    /\ pc = "running"
    /\ raised' = Raise("run", e)
    /\ out' = Append(out, ErrorEvent(e))
    /\ pc' = "error"
    /\ UNCHANGED <<req, wrapper, researcher, started, events, pending,
                   iteration_count, emitted, origLog, report, findings, citations, cit_i,
                   escaped>>

\* the request's task is cancelled while it awaits run (the client went away,
\* the server shuts down): asyncio.CancelledError is no Exception, the except
\* clause does not catch it
Cancelled ==
    /\ pc = "running"
    /\ raised' = [stage |-> "run", type |-> "CancelledError", msg |-> "",
                  is_exception |-> FALSE]
    /\ escaped' = TRUE
    /\ pc' = "cancelled"
    /\ UNCHANGED <<req, wrapper, researcher, started, out, events, pending,
                   iteration_count, emitted, origLog, report, findings, citations, cit_i>>

\* run returns; the citations are extracted and the generator goes on to its
\* next yield (the first citation, or final_report when there is none)
RunReturns(res) ==
    /\ pc = "running"
    /\ report' = res.report
    /\ findings' = res.findings
    /\ citations' = ExtractCitations(Mode, res.report, res.findings)
    /\ cit_i' = IF citations' = <<>> THEN 0 ELSE 1
    /\ LET y == NextYield(Mode, report', citations', iteration_count, 0)
       IN  /\ out' = Append(out, y.frame)
           /\ pc' = y.pc
    /\ UNCHANGED <<req, wrapper, researcher, started, events, pending,
                   iteration_count, emitted, origLog, raised, escaped>>

\* run returns and the extraction of the citations raises
ExtractRaises(e) ==
    /\ pc = "running"
    /\ raised' = Raise("extract", e)
    /\ out' = Append(out, ErrorEvent(e))
    /\ pc' = "error"
    /\ UNCHANGED <<req, wrapper, researcher, started, events, pending,
                   iteration_count, emitted, origLog, report, findings, citations, cit_i,
                   escaped>>

\* the for loop over the citations, then final_report
YieldNext ==
    /\ pc = "citing"
    /\ LET y == NextYield(Mode, report, citations, iteration_count, cit_i)
       IN  /\ out' = Append(out, y.frame)
           /\ pc' = y.pc
           /\ cit_i' = IF y.pc = "citing" THEN cit_i + 1 ELSE cit_i
    /\ UNCHANGED <<req, wrapper, researcher, started, events, pending,
                   iteration_count, emitted, origLog, report, findings, citations, raised,
                   escaped>>

YieldCompleted ==
    /\ pc = "final_report"
    /\ out' = Append(out, CompletedEvent(Mode))
    /\ pc' = "completed"
    /\ UNCHANGED <<req, wrapper, researcher, started, events, pending,
                   iteration_count, emitted, origLog, report, findings, citations, cit_i,
                   raised, escaped>>

\* the body runs off its end: StopAsyncIteration
Finish ==
    /\ pc \in {"completed", "error"}
    /\ pc' = "done"
    /\ UNCHANGED <<req, wrapper, researcher, started, out, events, pending,
                   iteration_count, emitted, origLog, report, findings, citations, cit_i,
                   raised, escaped>>

Generator ==
    \/ YieldStarted
    \/ Construct
    \/ \E e \in Exceptions : ConstructRaises(e)
    \/ \E e \in Exceptions : RunRaises(e)
    \/ Cancelled
    \/ \E res \in Results(Mode) : RunReturns(res)
    \/ \E e \in Exceptions : ExtractRaises(e)
    \/ YieldNext
    \/ YieldCompleted
    \/ Finish

Receive == \E r \in SampleRequests : stream_research(r)

Next == Receive \/ Generator \/ LogSample \/ RunTask

Spec == Init /\ [][Next]_vars

(***************************************************************************)
(* Request validation and dispatch over every request body.                *)
(***************************************************************************)
ReceiveAny == \E r \in AllRequests : stream_research(r)

NextRequest == ReceiveAny \/ YieldStarted

SpecRequest == Init /\ [][NextRequest]_vars

(***************************************************************************)
(* The log interceptors over every message of at most MaxMsgLen tokens:    *)
(* a run of either mode, just after researcher.run was entered.            *)
(***************************************************************************)
InitLog ==
    /\ pc = "running"
    /\ \E m \in {"iterative", "deep"} :
           /\ req = [query |-> {"q"}, mode |-> {m}, max_iterations |-> {},
                     max_time_minutes |-> {}, output_length |-> {},
                     background_context |-> {}]
           /\ researcher = m
    /\ wrapper = TRUE
    /\ started = Dispatch(Validated(req))
    /\ out = <<StartedEvent>>
    /\ events = <<>>
    /\ pending = <<>>
    /\ iteration_count = 0
    /\ emitted = <<>>
    /\ origLog = <<>>
    /\ report = <<>>
    /\ findings = <<>>
    /\ citations = <<>>
    /\ cit_i = 0
    /\ raised = NoRaise
    /\ escaped = FALSE

NextLog == LogAny \/ RunTask

SpecLog == InitLog /\ [][NextLog]_vars

(***************************************************************************)
(* The two citation extractors over report texts of at most MaxSegs        *)
(* segments and conversations of at most MaxFindings findings.             *)
(***************************************************************************)
FindingInputs ==
    {<<t>> : t \in Texts(MaxSegs)} \cup Lists(FindingPool, MaxFindings)

InitCite ==
    /\ pc = "cite_input"
    /\ \/ report \in Texts(MaxSegs) /\ findings = <<>>
       \/ report = <<>> /\ findings \in FindingInputs
    /\ req = [query |-> {}, mode |-> {}, max_iterations |-> {},
              max_time_minutes |-> {}, output_length |-> {},
              background_context |-> {}]
    /\ wrapper = TRUE
    /\ researcher = "none"
    /\ started = NotStarted
    /\ out = <<>>
    /\ events = <<>>
    /\ pending = <<>>
    /\ iteration_count = 0
    /\ emitted = <<>>
    /\ origLog = <<>>
    /\ citations = <<>>
    /\ cit_i = 0
    /\ raised = NoRaise
    /\ escaped = FALSE

CiteReport ==
    /\ pc = "cite_input"
    /\ citations' = extract_citations_from_report(report)
    /\ pc' = "cited_report"
    /\ UNCHANGED <<req, wrapper, researcher, started, out, events, pending,
                   iteration_count, emitted, origLog, report, findings, cit_i, raised,
                   escaped>>

CiteFindings ==
    /\ pc = "cite_input"
    /\ citations' = extract_citations_from_findings(findings)
    /\ pc' = "cited_findings"
    /\ UNCHANGED <<req, wrapper, researcher, started, out, events, pending,
                   iteration_count, emitted, origLog, report, findings, cit_i, raised,
                   escaped>>

NextCite == CiteReport \/ CiteFindings

SpecCite == InitCite /\ [][NextCite]_vars

(***************************************************************************)
(* Properties.                                                             *)
(***************************************************************************)
OutTypes == Types(out)

Count(seq, x) == Cardinality({n \in DOMAIN seq : seq[n] = x})

Terminal == {"completed", "error"}

\* events scheduled by the log callback, in scheduling order, recorded or not
Scheduled == events \o pending

\* C1: every log message that matches a recognised pattern results in an event
\* of the corresponding type in the SSE stream of its request: once the
\* generator is over, each event the log callback scheduled has a frame of its
\* type among the yielded ones.
C1_LogEventsStreamed ==
    pc = "done" =>
        \A n \in DOMAIN Scheduled :
            \E k \in DOMAIN out : FrameEvent(out[k]).type = Scheduled[n].type

\* the order of a stream's events: started first and once, before the
\* researcher exists; nothing after a terminal event; completed right after
\* the only final_report, which follows nothing but started and citations
WellOrdered ==
    /\ (researcher # "none" \/ pc \in {"started", "error"}) =>
           out # <<>> /\ OutTypes[1] = "started"
    /\ out # <<>> => OutTypes[1] = "started" /\ Count(OutTypes, "started") = 1
    /\ \A n \in DOMAIN out : OutTypes[n] \in Terminal => n = Len(out)
    /\ \A n \in DOMAIN out :
           OutTypes[n] = "final_report" =>
               /\ Count(OutTypes, "final_report") = 1
               /\ \A k \in 2..(n - 1) : OutTypes[k] = "citation"
               /\ Count(OutTypes, "citation") = Len(citations)
               /\ \A k \in 1..Len(citations) :
                      FrameEvent(out[k + 1]).data = citations[k]
    /\ \A n \in DOMAIN out :
           OutTypes[n] = "completed" => n >= 3 /\ OutTypes[n - 1] = "final_report"
    /\ \A n \in DOMAIN out :
           OutTypes[n] = "citation" =>
               \A k \in (n + 1)..Len(out) : OutTypes[k] # "started"

EndsWithTerminal ==
    /\ out # <<>>
    /\ OutTypes[Len(out)] \in Terminal
    /\ Cardinality({n \in DOMAIN out : OutTypes[n] \in Terminal}) = 1

\* the generator is over: it ran off its end, or an exception left it
GeneratorOver == pc \in {"done", "cancelled"}

\* C2 as stated: every response stream is well ordered and, once over, ends
\* with exactly one terminal event (completed or error).
C2_EveryStreamEndsWithTerminal ==
    /\ WellOrdered
    /\ GeneratorOver => EndsWithTerminal

\* C2 as amended: every response stream is well ordered; a stream whose
\* generator runs off its end ends with exactly one terminal event; a stream
\* whose task is cancelled while it awaits researcher.run ends with no
\* terminal event at all.
C2_StreamShape ==
    /\ WellOrdered
    /\ pc = "done" => EndsWithTerminal
    /\ pc = "cancelled" => \A n \in DOMAIN out : OutTypes[n] \notin Terminal

C2_Witness ==
    /\ pc = "done"
    /\ Len(citations) >= 2
    /\ OutTypes[Len(out)] = "completed"

\* C3: once an Exception was raised by the construction of the researcher, by
\* run or by the citation extraction, the stream holds exactly one error
\* event, the last one, carrying str(e) and the type name; it holds no
\* final_report and no completed; and the exception did not leave the
\* generator, which is suspended at that yield or has ended.
C3_ErrorAsEvent ==
    raised.is_exception =>
        /\ Count(OutTypes, "error") = 1
        /\ OutTypes[Len(out)] = "error"
        /\ FrameEvent(out[Len(out)]).data = [error |-> raised.msg, type |-> raised.type]
        /\ Count(OutTypes, "final_report") = 0
        /\ Count(OutTypes, "completed") = 0
        /\ ~escaped
        /\ pc \in {"error", "done"}

C3_Witness ==
    /\ pc = "done"
    /\ raised.is_exception
    /\ raised.stage = "run"
    /\ emitted # <<>>

\* what the claim accepts: query present, mode iterative or deep (iterative
\* when omitted), 1..20 iterations (5 when omitted), 1..60 minutes (10)
Acceptable(r) ==
    /\ r.query # {}
    /\ r.mode \in {{}, {"iterative"}, {"deep"}}
    /\ r.max_iterations = {} \/ \E v \in 1..20 : r.max_iterations = {v}
    /\ r.max_time_minutes = {} \/ \E v \in 1..60 : r.max_time_minutes = {v}

Requested(field, default) == IF field = {} THEN {default} ELSE field

\* C4: a request is accepted exactly when it is acceptable; a rejected one
\* creates no wrapper and no researcher and yields nothing; an accepted one
\* starts the one generator of its mode with its own values (the defaults for
\* omitted fields), which the started event repeats; the 400 branch is dead.
C4_ValidationAndDispatch ==
    /\ pc # "rejected_400"
    /\ pc # "idle" => (pc = "rejected_422" <=> ~Acceptable(req))
    /\ pc = "rejected_422" =>
           wrapper = FALSE /\ researcher = "none" /\ started = NotStarted /\ out = <<>>
    /\ pc \notin {"idle", "rejected_422"} =>
           /\ wrapper = TRUE
           /\ started.fn = IF req.mode = {"deep"} THEN "stream_deep_research"
                           ELSE "stream_iterative_research"
           /\ {started.query} = req.query
           /\ {started.max_iterations} = Requested(req.max_iterations, 5)
           /\ {started.max_time_minutes} = Requested(req.max_time_minutes, 10)
           /\ started.fn = "stream_iterative_research" =>
                  /\ {started.output_length} = Requested(req.output_length, "5 pages")
                  /\ {started.background_context} = Requested(req.background_context, "")
           /\ out # <<>> =>
                  FrameEvent(out[1]) =
                      [type |-> "started",
                       data |-> [mode             |-> IF req.mode = {"deep"} THEN "deep"
                                                      ELSE "iterative",
                                 query            |-> started.query,
                                 max_iterations   |-> started.max_iterations,
                                 max_time_minutes |-> started.max_time_minutes]]

C4_Witness ==
    /\ pc = "started"
    /\ req.mode = {"deep"}
    /\ req.max_iterations = {20}
    /\ req.max_time_minutes = {}
    /\ FrameEvent(out[1]).data.max_time_minutes = 10

CitationFields == {"id", "url", "title", "sourceType", "snippet"}

Cited == pc \in {"cited_report", "cited_findings"}

\* C5: every record either extractor returns has exactly the five fields,
\* sourceType "web", a non-empty url and a non-empty title, and the n-th
\* record has id n.
C5_CitationRecords ==
    Cited =>
        \A n \in DOMAIN citations :
            /\ DOMAIN citations[n] = CitationFields
            /\ citations[n].sourceType = "web"
            /\ citations[n].url # <<>>
            /\ citations[n].title # <<>>
            /\ citations[n].id = n

\* two findings with a url each; the second one's url follows a full stop,
\* so that no title text is found and the url is used
C5_Witness ==
    /\ pc = "cited_findings"
    /\ findings = << <<"a", " ">> \o UrlX, <<"a", ".", " ">> \o UrlX >>
    /\ Len(citations) = 2
    /\ citations[1].title = <<"a">>
    /\ citations[2].title = UrlX

\* C9: the records _extract_citations_from_report returns have pairwise
\* different urls, and every target of a markdown link has exactly one record.
C9_UrlsUnique ==
    pc = "cited_report" =>
        /\ \A m, n \in DOMAIN citations :
               citations[m].url = citations[n].url => m = n
        /\ \A l \in DOMAIN MarkdownLinks(report) :
               Cardinality({n \in DOMAIN citations :
                                citations[n].url = MarkdownLinks(report)[l].url}) = 1

\* C6: a call of the log callback records nothing itself: it leaves
\* wrapper.events and the stream as they are, adds at most one task to the
\* queue, and the request goes on where it was; an event is recorded only
\* when the event loop later runs the oldest queued task, whatever the
\* generator has yielded by then.
C6_FireAndForget ==
    [][/\ emitted' # emitted =>
              /\ events' = events
              /\ out' = out
              /\ pc' = pc
              /\ \/ pending' = pending
                 \/ /\ Len(pending') = Len(pending) + 1
                    /\ SubSeq(pending', 1, Len(pending)) = pending
       /\ events' # events =>
              /\ pending # <<>>
              /\ events' = Append(events, Head(pending))
              /\ pending' = Tail(pending)
              /\ out' = out /\ pc' = pc]_vars

\* final_report and completed are with the client, the generator is over, and
\* an event the log callback scheduled during run is still not recorded
C6_Witness ==
    /\ pc = "done"
    /\ Count(OutTypes, "final_report") = 1
    /\ Count(OutTypes, "completed") = 1
    /\ pending # <<>>
    /\ events = <<>>

\* the event type the claim gives each pattern, in the claim's priority order
ClaimedPatterns(mode) ==
    IF mode = "iterative"
    THEN <<"Starting Iteration", "<thought>", "<task>", "<action>",
           "Tool execution progress", "<findings>", "Drafting Final Response">>
    ELSE <<"Building Report Plan", "Report plan created with",
           "Initializing Research Loops", "Building Final Report", "completed in">>

ClaimedTypes(mode) ==
    IF mode = "iterative"
    THEN <<"iteration_start", "observations", "gap_detected", "tool_selection",
           "tool_progress", "findings_update", "finalizing">>
    ELSE <<"planning", "plan_created", "research_start", "finalizing", "progress">>

Matching(mode, message) ==
    {i \in DOMAIN ClaimedPatterns(mode) : Contains(message, ClaimedPatterns(mode)[i])}

\* C7: a log message schedules no event when it holds no pattern, and else
\* exactly one, of the type of the first pattern of the priority order that
\* it holds; and it reaches the original _log_message once, unmodified.
C7_Classification ==
    Len(emitted) = 1 =>
        LET hits == Matching(Mode, emitted[1])
        IN  /\ hits = {} => Scheduled = <<>>
            /\ hits # {} =>
                   /\ Len(Scheduled) = 1
                   /\ \E i \in hits :
                          /\ \A k \in hits : i <= k
                          /\ Scheduled[1].type = ClaimedTypes(Mode)[i]
            /\ origLog = emitted

\* a message holding two patterns, the one of lower priority first
C7_Witness ==
    /\ started.fn = "stream_iterative_research"
    /\ emitted = << <<"<task>", "<thought>">> >>
    /\ origLog = emitted
    /\ EventTypes(Scheduled) = <<"observations">>

IsStart(message) == Contains(message, "Starting Iteration")

Starts(log) == Cardinality({n \in DOMAIN log : IsStart(log[n])})

IterationStarts == SelectSeq(Scheduled, LAMBDA ev : ev.type = "iteration_start")

\* C8: in iterative mode the counter is the number of "Starting Iteration"
\* messages logged so far (0 before the first), the k-th of them scheduled
\* iteration_start with iteration = k, and final_report carries the number of
\* such messages of the run.
C8_IterationCount ==
    started.fn = "stream_iterative_research" =>
        /\ iteration_count = Starts(emitted)
        /\ Len(IterationStarts) = Starts(emitted)
        /\ \A k \in DOMAIN IterationStarts : IterationStarts[k].data.iteration = k
        /\ \A n \in DOMAIN out :
               OutTypes[n] = "final_report" =>
                   FrameEvent(out[n]).data.iterations = Starts(emitted)

\* two messages, one of them starting an iteration, and the report is out
C8_Witness ==
    /\ started.fn = "stream_iterative_research"
    /\ Len(emitted) = 2
    /\ Starts(emitted) = 1
    /\ ~IsStart(emitted[1])
    /\ \E n \in DOMAIN out :
           /\ OutTypes[n] = "final_report"
           /\ FrameEvent(out[n]).data.iterations = 1

====
